---- MODULE Spec2Model ----
(***************************************************************************)
(* A model of AkitaOriginStats (src/src/data/AkitaOriginStats.js): the     *)
(* four running totals, the top-5 monetized origins map and the map of     *)
(* total sent assets, with one action per public method.                   *)
(*                                                                         *)
(* JavaScript values are modelled as records tagged by "kind":             *)
(*   Absent     the property does not exist on the object                  *)
(*   Undefined  the property exists and holds undefined                    *)
(*   Null       null (the default of a missing destructured parameter)     *)
(*   NotANumber a value for which isNaN() is true (NaN, "abc", {})         *)
(*   an object  [kind |-> "object", ...fields...]                          *)
(*   a number   [kind |-> "number", value |-> n]  (payment data only)       *)
(*   a string   [kind |-> "string", value |-> s]  (payment data only)       *)
(* Times, totals, origins and flags are plain integers and booleans.       *)
(***************************************************************************)
EXTENDS Integers, Sequences, FiniteSets, TLC

VARIABLES
    totalTimeSpent,           \* this.totalTimeSpent
    totalMonetizedTimeSpent,  \* this.totalMonetizedTimeSpent
    totalVisits,              \* this.totalVisits
    totalMonetizedVisits,     \* this.totalMonetizedVisits
    topOriginsMap,            \* this.topOriginsMap, keys 1..5
    totalSentAssetsMap,       \* this.totalSentAssetsMap, keyed by assetCode
    lastCall,                 \* history: the last method called, with its arguments
    prev,                     \* history: the fields as they were before that call
    calls,                    \* history: the arguments of the calls (SpecDistinct, SpecVisits,
                              \* SpecSum, SpecSeen)
    callerData,               \* the caller's AkitaOriginData object of each origin
    pc,                       \* isPaymentPointerValid: the position of the call
    paymentPointerCandidate,  \* isPaymentPointerValid: let paymentPointerCandidate
    redirectCounter,          \* isPaymentPointerValid: let redirectCounter
    endpoint,                 \* isPaymentPointerValid: let endpoint
    response,                 \* isPaymentPointerValid: let response
    isPaymentPointerValid,    \* isPaymentPointerValid: let isPaymentPointerValid
    requests,                 \* history: number of httpGet requests of the call
    tracking,                 \* trackTimeOnSite was called: its listeners are installed
    clock,                    \* performance.now(), in units of 1/Resolution ms
    hidden,                   \* document.hidden
    previousStoreTime,        \* trackTimeOnSite: let previousStoreTime
    docHiddenTime,            \* trackTimeOnSite: let docHiddenTime
    docVisibleTime,           \* trackTimeOnSite: let docVisibleTime
    awaiting,                 \* the interval callbacks suspended at their await, by their now
    visibleSinceStore         \* history: time the document was visible since the last store

\* the local variables of a call of isPaymentPointerValid
pointerVars == <<pc, paymentPointerCandidate, redirectCounter, endpoint, response,
                 isPaymentPointerValid, requests>>

\* the fields of the AkitaOriginStats instance and their history
statsVars == <<totalTimeSpent, totalMonetizedTimeSpent, totalVisits, totalMonetizedVisits,
               topOriginsMap, totalSentAssetsMap, lastCall, prev, calls>>

\* the page and the local variables of trackTimeOnSite
trackVars == <<tracking, clock, hidden, previousStoreTime, docHiddenTime,
               docVisibleTime, awaiting, visibleSinceStore>>

vars == <<statsVars, callerData, trackVars, pointerVars, trackVars>>

---------------------------------------------------------------------------
(* Bounds of the model *)

\* origins 1..NumOrigins are submitted by the callers of SpecBoard
NumOrigins == 2

\* number of candidates with distinct origins submitted by SpecDistinct
MaxDistinct == 6

\* caps on the counters, which the code leaves unbounded
MaxTotalTime == 2
MaxVisits == 2

\* number of incrementVisits calls made by SpecVisits
MaxVisitCalls == 6

\* number of updateAssetsMapWithAsset calls made by SpecSum
MaxLedgerCalls == 4
MaxAmount == 1000

\* cap on the httpGet requests of one isPaymentPointerValid call, which the
\* code leaves unbounded
MaxRequests == 6

\* the last clock reading, and the number of interval callbacks that store,
\* of SpecTrack
MaxTime == 5
MaxStores == 3

---------------------------------------------------------------------------
(* JavaScript values *)

Absent == [kind |-> "absent"]
Undefined == [kind |-> "undefined"]
Null == [kind |-> "null"]
NotANumber == [kind |-> "NaN"]

\* if (v) for the values a map slot can hold: an object is truthy, a missing
\* property and undefined are falsy
IsObject(v) == v.kind = "object"

\* obj[key]: reading a missing property gives undefined
Get(map, key) == IF map[key] = Absent THEN Undefined ELSE map[key]

Num(n) == [kind |-> "number", value |-> n]
Str(s) == [kind |-> "string", value |-> s]

\* isNaN(v): Number(null) is 0, so isNaN(null) is false
IsNaN(v) == v.kind \in {"NaN", "undefined", "absent"}

\* if (v) for a string or null
Truthy(v) == v.kind = "string" /\ v.value # ""

\* the default "= null" of a destructured parameter applies when the property
\* is missing or undefined
DefaultNull(v) == IF v.kind \in {"absent", "undefined"} THEN Null ELSE v

\* the number a value becomes in arithmetic: null becomes 0
ToNumber(v) == IF v.kind = "number" THEN v.value ELSE 0

---------------------------------------------------------------------------
(* Top 5 monetized origins map *)

ORIGIN_RANKING_FIRST == 1
ORIGIN_RANKING_LAST == 5

Rankings == ORIGIN_RANKING_FIRST..ORIGIN_RANKING_LAST

\* an AkitaOriginData as maybeUpdateTopOriginsMap reads it
OriginData(o, t, m) ==
    [kind |-> "object", origin |-> o,
     originVisitData |-> [timeSpentAtOrigin |-> t],
     isCurrentlyMonetized |-> m]

EmptyMap == [r \in Rankings |-> Absent]

\* contenderBattlesOriginAt with the comparison reversed (< for >)
RECURSIVE contenderBattlesOriginAt_Less(_, _, _)
contenderBattlesOriginAt_Less(map, ranking, timeSpentAtContender) ==
    IF \/ ranking > ORIGIN_RANKING_LAST
       \/ ~IsObject(map[ranking])
       \/ /\ ranking <= ORIGIN_RANKING_LAST
          /\ IsObject(map[ranking])
          /\ timeSpentAtContender < map[ranking].originVisitData.timeSpentAtOrigin
    THEN ranking
    ELSE contenderBattlesOriginAt_Less(map, ranking + 1, timeSpentAtContender)

\* contenderBattlesOriginAt with a comparison that is not strict (>= for >)
RECURSIVE contenderBattlesOriginAt_GreaterOrEqual(_, _, _)
contenderBattlesOriginAt_GreaterOrEqual(map, ranking, timeSpentAtContender) ==
    IF \/ ranking > ORIGIN_RANKING_LAST
       \/ ~IsObject(map[ranking])
       \/ /\ ranking <= ORIGIN_RANKING_LAST
          /\ IsObject(map[ranking])
          /\ timeSpentAtContender >= map[ranking].originVisitData.timeSpentAtOrigin
    THEN ranking
    ELSE contenderBattlesOriginAt_GreaterOrEqual(map, ranking + 1, timeSpentAtContender)

RECURSIVE contenderBattlesOriginAt(_, _, _)
contenderBattlesOriginAt(map, ranking, timeSpentAtContender) ==
    IF \/ ranking > ORIGIN_RANKING_LAST
       \/ ~IsObject(map[ranking])
       \/ /\ ranking <= ORIGIN_RANKING_LAST
          /\ IsObject(map[ranking])
          /\ timeSpentAtContender > map[ranking].originVisitData.timeSpentAtOrigin
    THEN ranking
    ELSE contenderBattlesOriginAt(map, ranking + 1, timeSpentAtContender)

\* reorderTopOriginsMap without the recursive call: the displaced origin is lost
reorderTopOriginsMap_NoCascade(map, ranking, replacementOrigin) ==
    IF ranking <= ORIGIN_RANKING_LAST
    THEN [map EXCEPT ![ranking] = replacementOrigin]
    ELSE map

\* reorderTopOriginsMap moving the displaced origin two ranks down, once
reorderTopOriginsMap_SkipsRank(map, ranking, replacementOrigin) ==
    IF ranking + 2 <= ORIGIN_RANKING_LAST
    THEN [map EXCEPT ![ranking] = replacementOrigin, ![ranking + 2] = map[ranking]]
    ELSE IF ranking <= ORIGIN_RANKING_LAST
    THEN [map EXCEPT ![ranking] = replacementOrigin]
    ELSE map

RECURSIVE reorderTopOriginsMap(_, _, _)
reorderTopOriginsMap(map, ranking, replacementOrigin) ==
    IF ranking <= ORIGIN_RANKING_LAST
    THEN LET currentOrigin == Get(map, ranking)
         IN  reorderTopOriginsMap([map EXCEPT ![ranking] = replacementOrigin],
                                  ranking + 1, currentOrigin)
    ELSE map

\* maybeUpdateTopOriginsMap without the test of isCurrentlyMonetized
maybeUpdateTopOriginsMap_IgnoresFlag(map, topOriginsContender) ==
    LET timeSpentAtContender == topOriginsContender.originVisitData.timeSpentAtOrigin
    IN  IF timeSpentAtContender > 0
        THEN LET ranking == contenderBattlesOriginAt(
                                map, ORIGIN_RANKING_FIRST, timeSpentAtContender)
             IN  IF ranking > ORIGIN_RANKING_LAST
                 THEN map
                 ELSE IF ~IsObject(map[ranking])
                 THEN [map EXCEPT ![ranking] = topOriginsContender]
                 ELSE IF topOriginsContender.origin = map[ranking].origin
                 THEN [map EXCEPT ![ranking] = topOriginsContender]
                 ELSE reorderTopOriginsMap(map, ranking, topOriginsContender)
        ELSE map

\* the map after maybeUpdateTopOriginsMap(topOriginsContender)
maybeUpdateTopOriginsMap(map, topOriginsContender) ==
    IF topOriginsContender.isCurrentlyMonetized
    THEN LET timeSpentAtContender ==
                 topOriginsContender.originVisitData.timeSpentAtOrigin
         IN  IF timeSpentAtContender > 0
             THEN LET ranking == contenderBattlesOriginAt(
                                     map, ORIGIN_RANKING_FIRST, timeSpentAtContender)
                  IN  IF ranking > ORIGIN_RANKING_LAST
                      THEN map
                      ELSE IF ~IsObject(map[ranking])
                      THEN [map EXCEPT ![ranking] = topOriginsContender]
                      ELSE IF topOriginsContender.origin = map[ranking].origin
                      THEN [map EXCEPT ![ranking] = topOriginsContender]
                      ELSE reorderTopOriginsMap(map, ranking, topOriginsContender)
             ELSE map
    ELSE map

---------------------------------------------------------------------------
(* The instance *)

Fields ==
    [totalTimeSpent |-> totalTimeSpent,
     totalMonetizedTimeSpent |-> totalMonetizedTimeSpent,
     totalVisits |-> totalVisits,
     totalMonetizedVisits |-> totalMonetizedVisits,
     topOriginsMap |-> topOriginsMap,
     totalSentAssetsMap |-> totalSentAssetsMap]

AssetCodes == {"USD", "XRP"}

\* the property names totalSentAssetsMap[assetCode] can address: an asset
\* code, or the name that null or the empty string converts to
AssetKeys == AssetCodes \cup {"null", ""}

\* the property name that obj[v] addresses
PropertyKey(v) == IF v.kind = "string" THEN v.value ELSE "null"

Init ==
    /\ totalTimeSpent = 0
    /\ totalMonetizedTimeSpent = 0
    /\ totalVisits = 0
    /\ totalMonetizedVisits = 0
    /\ topOriginsMap = EmptyMap
    /\ totalSentAssetsMap = [c \in AssetKeys |-> Absent]
    /\ lastCall = [op |-> "new"]
    /\ prev = Fields
    /\ calls = <<>>
    /\ callerData = [o \in 1..NumOrigins |-> OriginData(o, 0, FALSE)]
    /\ pc = "idle"
    /\ paymentPointerCandidate = Null
    /\ redirectCounter = 0
    /\ endpoint = Null
    /\ response = Null
    /\ isPaymentPointerValid = FALSE
    /\ requests = 0
    /\ tracking = FALSE
    /\ clock = 0
    /\ hidden = FALSE
    /\ previousStoreTime = 0
    /\ docHiddenTime = -1
    /\ docVisibleTime = -1
    /\ awaiting = {}
    /\ visibleSinceStore = 0

\* a direct call of maybeUpdateTopOriginsMap(topOriginsContender)
MaybeUpdateTopOriginsMapCall(topOriginsContender) ==
    /\ topOriginsMap' = maybeUpdateTopOriginsMap(topOriginsMap, topOriginsContender)
    /\ lastCall' = [op |-> "maybeUpdateTopOriginsMap", contender |-> topOriginsContender]
    /\ prev' = Fields
    /\ UNCHANGED <<totalTimeSpent, totalMonetizedTimeSpent, totalVisits,
                   totalMonetizedVisits, totalSentAssetsMap>>

\* updateTimeSpent with the monetized total updated whatever the flag
UpdateTimeSpentCall_AlwaysMonetized(recentTimeSpent, originData) ==
    /\ totalTimeSpent + recentTimeSpent <= MaxTotalTime
    /\ topOriginsMap' = maybeUpdateTopOriginsMap(topOriginsMap, originData)
    /\ totalTimeSpent' = totalTimeSpent + recentTimeSpent
    /\ totalMonetizedTimeSpent' = totalMonetizedTimeSpent + recentTimeSpent
    /\ lastCall' = [op |-> "updateTimeSpent", recentTimeSpent |-> recentTimeSpent,
                    originData |-> originData]
    /\ prev' = Fields
    /\ UNCHANGED <<totalVisits, totalMonetizedVisits, totalSentAssetsMap>>

\* updateTimeSpent(recentTimeSpent, originData)
UpdateTimeSpentCall(recentTimeSpent, originData) ==
    /\ totalTimeSpent + recentTimeSpent <= MaxTotalTime
    /\ topOriginsMap' = maybeUpdateTopOriginsMap(topOriginsMap, originData)
    /\ totalTimeSpent' = totalTimeSpent + recentTimeSpent
    /\ totalMonetizedTimeSpent' =
          IF originData.isCurrentlyMonetized
          THEN totalMonetizedTimeSpent + recentTimeSpent
          ELSE totalMonetizedTimeSpent
    /\ lastCall' = [op |-> "updateTimeSpent", recentTimeSpent |-> recentTimeSpent,
                    originData |-> originData]
    /\ prev' = Fields
    /\ UNCHANGED <<totalVisits, totalMonetizedVisits, totalSentAssetsMap>>

\* incrementVisits with the two counters incremented whatever the flag
incrementVisits_AlwaysMonetized(originisCurrentlyMonetized) ==
    /\ totalMonetizedVisits' = totalMonetizedVisits + 1
    /\ totalVisits' = totalVisits + 1
    /\ lastCall' = [op |-> "incrementVisits", flag |-> originisCurrentlyMonetized]
    /\ prev' = Fields
    /\ UNCHANGED <<totalTimeSpent, totalMonetizedTimeSpent, topOriginsMap,
                   totalSentAssetsMap>>

\* incrementVisits with incrementTotalVisits in an else branch
incrementVisits_ElseTotal(originisCurrentlyMonetized) ==
    /\ totalMonetizedVisits' =
          IF originisCurrentlyMonetized
          THEN totalMonetizedVisits + 1
          ELSE totalMonetizedVisits
    /\ totalVisits' =
          IF originisCurrentlyMonetized THEN totalVisits ELSE totalVisits + 1
    /\ lastCall' = [op |-> "incrementVisits", flag |-> originisCurrentlyMonetized]
    /\ prev' = Fields
    /\ UNCHANGED <<totalTimeSpent, totalMonetizedTimeSpent, topOriginsMap,
                   totalSentAssetsMap>>

\* incrementVisits(originisCurrentlyMonetized)
incrementVisits(originisCurrentlyMonetized) ==
    /\ totalMonetizedVisits' =
          IF originisCurrentlyMonetized
          THEN totalMonetizedVisits + 1
          ELSE totalMonetizedVisits
    /\ totalVisits' = totalVisits + 1
    /\ lastCall' = [op |-> "incrementVisits", flag |-> originisCurrentlyMonetized]
    /\ prev' = Fields
    /\ UNCHANGED <<totalTimeSpent, totalMonetizedTimeSpent, topOriginsMap,
                   totalSentAssetsMap>>

\* incrementVisits(originisCurrentlyMonetized), while the counter is below its cap
IncrementVisitsCall(originisCurrentlyMonetized) ==
    /\ totalVisits < MaxVisits
    /\ incrementVisits(originisCurrentlyMonetized)

---------------------------------------------------------------------------
(* Total sent assets map *)

RECURSIVE Pow10(_)
Pow10(n) == IF n = 0 THEN 1 ELSE 10 * Pow10(n - 1)

\* new WebMonetizationAsset(assetCode): a zero-valued entry
NewWebMonetizationAsset(assetCode) ==
    [kind |-> "object", assetCode |-> assetCode, amount |-> 0, assetScale |-> 0]

\* asset.addAmount(amount, assetScale): the entry and the incoming amount are
\* brought to the larger of the two scales and added as integers
addAmount(asset, amount, assetScale) ==
    LET a == ToNumber(amount)
        s == ToNumber(assetScale)
    IN  IF s > asset.assetScale
        THEN [asset EXCEPT !.amount = asset.amount * Pow10(s - asset.assetScale) + a,
                           !.assetScale = s]
        ELSE [asset EXCEPT !.amount = asset.amount + a * Pow10(asset.assetScale - s)]

\* updateAssetsMapWithAsset without the test for an existing entry: every
\* call starts from a new WebMonetizationAsset
updateAssetsMapWithAsset_AlwaysNew(map, paymentData) ==
    LET amount == DefaultNull(paymentData.amount)
        assetScale == DefaultNull(paymentData.assetScale)
        assetCode == DefaultNull(paymentData.assetCode)
    IN  IF ~IsNaN(amount) /\ ~IsNaN(assetScale) /\ Truthy(assetCode)
        THEN LET code == PropertyKey(assetCode)
                 created == [map EXCEPT ![code] = NewWebMonetizationAsset(code)]
             IN  [created EXCEPT ![code] = addAmount(created[code], amount, assetScale)]
        ELSE map

\* updateAssetsMapWithAsset without the test of assetCode
updateAssetsMapWithAsset_NoCodeCheck(map, paymentData) ==
    LET amount == DefaultNull(paymentData.amount)
        assetScale == DefaultNull(paymentData.assetScale)
        assetCode == DefaultNull(paymentData.assetCode)
    IN  IF ~IsNaN(amount) /\ ~IsNaN(assetScale)
        THEN LET code == PropertyKey(assetCode)
                 created == IF ~IsObject(map[code])
                            THEN [map EXCEPT ![code] = NewWebMonetizationAsset(code)]
                            ELSE map
             IN  [created EXCEPT ![code] = addAmount(created[code], amount, assetScale)]
        ELSE map

\* the map after updateAssetsMapWithAsset(paymentData)
updateAssetsMapWithAsset(map, paymentData) ==
    LET amount == DefaultNull(paymentData.amount)
        assetScale == DefaultNull(paymentData.assetScale)
        assetCode == DefaultNull(paymentData.assetCode)
    IN  IF ~IsNaN(amount) /\ ~IsNaN(assetScale) /\ Truthy(assetCode)
        THEN LET code == PropertyKey(assetCode)
                 created == IF ~IsObject(map[code])
                            THEN [map EXCEPT ![code] = NewWebMonetizationAsset(code)]
                            ELSE map
             IN  [created EXCEPT ![code] = addAmount(created[code], amount, assetScale)]
        ELSE map

\* updateAssetsMapWithAsset(paymentData)
UpdateAssetsMapWithAssetStep(paymentData) ==
    /\ totalSentAssetsMap' = updateAssetsMapWithAsset(totalSentAssetsMap, paymentData)
    /\ lastCall' = [op |-> "updateAssetsMapWithAsset", paymentData |-> paymentData]
    /\ prev' = Fields
    /\ UNCHANGED <<totalTimeSpent, totalMonetizedTimeSpent, totalVisits,
                   totalMonetizedVisits, topOriginsMap>>

\* updateAssetsMapWithAsset(paymentData), while the totals are below their cap
UpdateAssetsMapWithAssetCall(paymentData) ==
    /\ UpdateAssetsMapWithAssetStep(paymentData)
    /\ \A c \in AssetKeys :
          IsObject(totalSentAssetsMap'[c]) => totalSentAssetsMap'[c].amount <= MaxAmount

---------------------------------------------------------------------------
(* Storing the instance and loading it again *)

\* the plain object that storage gives back: the instance's own properties;
\* JSON drops the properties that hold undefined, a structured copy keeps them
Serialize(fields, dropUndefined) ==
    [fields EXCEPT !.topOriginsMap =
        [r \in Rankings |->
            IF dropUndefined /\ fields.topOriginsMap[r] = Undefined
            THEN Absent
            ELSE fields.topOriginsMap[r]]]

\* AkitaOriginData.fromObject: a copy, field by field
AkitaOriginDataFromObject(o) ==
    OriginData(o.origin, o.originVisitData.timeSpentAtOrigin, o.isCurrentlyMonetized)

\* WebMonetizationAsset.fromObject: a copy, field by field
WebMonetizationAssetFromObject(o) ==
    [kind |-> "object", assetCode |-> o.assetCode, amount |-> o.amount,
     assetScale |-> o.assetScale]

\* fromObject with totalMonetizedVisits copied from totalVisits
fromObject_VisitsForMonetizedVisits(akitaOriginStats) ==
    [totalTimeSpent |-> akitaOriginStats.totalTimeSpent,
     totalMonetizedTimeSpent |-> akitaOriginStats.totalMonetizedTimeSpent,
     totalVisits |-> akitaOriginStats.totalVisits,
     totalMonetizedVisits |-> akitaOriginStats.totalVisits,
     topOriginsMap |->
        [r \in Rankings |->
            IF akitaOriginStats.topOriginsMap[r] # Absent
               /\ IsObject(akitaOriginStats.topOriginsMap[r])
            THEN AkitaOriginDataFromObject(akitaOriginStats.topOriginsMap[r])
            ELSE Absent],
     totalSentAssetsMap |->
        [c \in AssetKeys |->
            IF akitaOriginStats.totalSentAssetsMap[c] # Absent
            THEN WebMonetizationAssetFromObject(akitaOriginStats.totalSentAssetsMap[c])
            ELSE Absent]]

\* AkitaOriginStats.fromObject(akitaOriginStats)
fromObject(akitaOriginStats) ==
    [totalTimeSpent |-> akitaOriginStats.totalTimeSpent,
     totalMonetizedTimeSpent |-> akitaOriginStats.totalMonetizedTimeSpent,
     totalVisits |-> akitaOriginStats.totalVisits,
     totalMonetizedVisits |-> akitaOriginStats.totalMonetizedVisits,
     topOriginsMap |->
        [r \in Rankings |->
            IF akitaOriginStats.topOriginsMap[r] # Absent
               /\ IsObject(akitaOriginStats.topOriginsMap[r])
            THEN AkitaOriginDataFromObject(akitaOriginStats.topOriginsMap[r])
            ELSE Absent],
     totalSentAssetsMap |->
        [c \in AssetKeys |->
            IF akitaOriginStats.totalSentAssetsMap[c] # Absent
            THEN WebMonetizationAssetFromObject(akitaOriginStats.totalSentAssetsMap[c])
            ELSE Absent]]

\* the instance is stored and replaced by AkitaOriginStats.fromObject of what
\* storage gives back
FromObjectCall(dropUndefined) ==
    LET loaded == fromObject(Serialize(Fields, dropUndefined))
    IN  /\ totalTimeSpent' = loaded.totalTimeSpent
        /\ totalMonetizedTimeSpent' = loaded.totalMonetizedTimeSpent
        /\ totalVisits' = loaded.totalVisits
        /\ totalMonetizedVisits' = loaded.totalMonetizedVisits
        /\ topOriginsMap' = loaded.topOriginsMap
        /\ totalSentAssetsMap' = loaded.totalSentAssetsMap
        /\ lastCall' = [op |-> "fromObject", dropUndefined |-> dropUndefined]
        /\ prev' = Fields

---------------------------------------------------------------------------
(* SpecBoard: any sequence of maybeUpdateTopOriginsMap calls *)

Origins == 1..NumOrigins
TimesSpent == {-5, 0, 10, 20, 30}
Contenders == {OriginData(o, t, m) : o \in Origins, t \in TimesSpent, m \in BOOLEAN}

NextBoard ==
    /\ \E c \in Contenders : MaybeUpdateTopOriginsMapCall(c)
    /\ UNCHANGED <<calls, callerData, pointerVars, trackVars>>

SpecBoard == Init /\ [][NextBoard]_vars

---------------------------------------------------------------------------
(* SpecLedger: any sequence of updateAssetsMapWithAsset calls *)

PaymentPointer == Str("$wallet.example.com/alice")
AmountValues == {Absent, NotANumber, Num(235), Num(765)}
AssetScaleValues == {Absent, NotANumber, Num(2), Num(3)}
AssetCodeValues == {Absent, Str("")} \cup {Str(c) : c \in AssetCodes}

PaymentData ==
    [paymentPointer : {PaymentPointer}, amount : AmountValues,
     assetScale : AssetScaleValues, assetCode : AssetCodeValues]

NextLedger ==
    /\ \E p \in PaymentData : UpdateAssetsMapWithAssetCall(p)
    /\ UNCHANGED <<calls, callerData, pointerVars, trackVars>>

SpecLedger == Init /\ [][NextLedger]_vars

---------------------------------------------------------------------------
(* Spec: any sequence of calls of the methods, and of storing and loading *)

RecentTimes == {0, 1, 2}
StatsOriginData ==
    {OriginData(1, 10, TRUE), OriginData(2, 20, TRUE),
     OriginData(1, 20, FALSE), OriginData(2, 0, TRUE)}
StatsPaymentData ==
    {[paymentPointer |-> PaymentPointer, amount |-> Absent,
      assetScale |-> Absent, assetCode |-> Absent],
     [paymentPointer |-> PaymentPointer, amount |-> Absent,
      assetScale |-> Absent, assetCode |-> Str("XRP")],
     [paymentPointer |-> PaymentPointer, amount |-> Num(765),
      assetScale |-> Num(3), assetCode |-> Str("USD")]}

Next ==
    \/ \E t \in RecentTimes, d \in StatsOriginData :
          UpdateTimeSpentCall(t, d) /\ UNCHANGED <<calls, callerData, pointerVars, trackVars>>
    \/ /\ \E m \in BOOLEAN : IncrementVisitsCall(m)
       /\ UNCHANGED <<calls, callerData, pointerVars, trackVars>>
    \/ /\ \E p \in StatsPaymentData : UpdateAssetsMapWithAssetCall(p)
       /\ UNCHANGED <<calls, callerData, pointerVars, trackVars>>
    \/ /\ \E j \in BOOLEAN : FromObjectCall(j)
       /\ UNCHANGED <<calls, callerData, pointerVars, trackVars>>

Spec == Init /\ [][Next]_vars

---------------------------------------------------------------------------
(* SpecDistinct: monetized candidates with positive times and pairwise     *)
(* distinct origins; the n-th candidate submitted has origin n             *)

DistinctTimes == {10, 20, 25, 30, 40, 50}

NextDistinct ==
    /\ Len(calls) < MaxDistinct
    /\ \E t \in DistinctTimes :
          LET c == OriginData(Len(calls) + 1, t, TRUE)
          IN  /\ MaybeUpdateTopOriginsMapCall(c)
              /\ calls' = Append(calls, c)
              /\ UNCHANGED <<callerData, pointerVars, trackVars>>

SpecDistinct == Init /\ [][NextDistinct]_vars

---------------------------------------------------------------------------
(* SpecVisits: any sequence of incrementVisits calls, on an instance that   *)
(* also records time spent and a payment                                   *)

VisitsOriginData == OriginData(1, 10, TRUE)
VisitsPaymentData ==
    [paymentPointer |-> PaymentPointer, amount |-> Num(765),
     assetScale |-> Num(3), assetCode |-> Str("USD")]

NextVisits ==
    \/ /\ Len(calls) < MaxVisitCalls
       /\ \E m \in BOOLEAN : incrementVisits(m) /\ calls' = Append(calls, m)
       /\ UNCHANGED <<callerData, pointerVars, trackVars>>
    \/ /\ UpdateTimeSpentCall(1, VisitsOriginData)
       /\ UNCHANGED <<calls, callerData, pointerVars, trackVars>>
    \/ /\ UpdateAssetsMapWithAssetCall(VisitsPaymentData)
       /\ UNCHANGED <<calls, callerData, pointerVars, trackVars>>

SpecVisits == Init /\ [][NextVisits]_vars

---------------------------------------------------------------------------
(* SpecSum: any sequence of updateAssetsMapWithAsset calls that pass the    *)
(* test of line 256, with amounts of either sign and two scales            *)

SumAmounts == {-235, 235, 765}
SumScales == {0, 3}
SumPaymentData ==
    [paymentPointer : {PaymentPointer}, amount : {Num(a) : a \in SumAmounts},
     assetScale : {Num(k) : k \in SumScales}, assetCode : {Str(c) : c \in AssetCodes}]

NextSum ==
    /\ Len(calls) < MaxLedgerCalls
    /\ \E p \in SumPaymentData :
          UpdateAssetsMapWithAssetStep(p) /\ calls' = Append(calls, p)
          /\ UNCHANGED <<callerData, pointerVars, trackVars>>

SpecSum == Init /\ [][NextSum]_vars

---------------------------------------------------------------------------
(* SpecSeen: any sequence of maybeUpdateTopOriginsMap calls and of storing  *)
(* and loading; calls lists the origins submitted monetized with a         *)
(* positive time, each once                                                *)

SeenTimesSpent == {0, 10, 20}
SeenContenders ==
    {OriginData(o, t, m) : o \in Origins, t \in SeenTimesSpent, m \in BOOLEAN}

SeenOrigins == {calls[i] : i \in 1..Len(calls)}

NextSeen ==
    \/ \E c \in SeenContenders :
          /\ MaybeUpdateTopOriginsMapCall(c)
          /\ calls' = IF /\ c.isCurrentlyMonetized
                         /\ c.originVisitData.timeSpentAtOrigin > 0
                         /\ c.origin \notin SeenOrigins
                      THEN Append(calls, c.origin)
                      ELSE calls
          /\ UNCHANGED <<callerData, pointerVars, trackVars>>
    \/ /\ \E j \in BOOLEAN : FromObjectCall(j)
       /\ UNCHANGED <<calls, callerData, pointerVars, trackVars>>

SpecSeen == Init /\ [][NextSeen]_vars

---------------------------------------------------------------------------
(* SpecAlias: the caller keeps one AkitaOriginData object per origin,       *)
(* passes it to maybeUpdateTopOriginsMap and changes it between the calls. *)
(* The map stores the object passed (this.topOriginsMap[i] =               *)
(* topOriginsContender, and reorderTopOriginsMap moves what the map        *)
(* holds), so an entry of the map and the caller's object of its origin    *)
(* are one object.                                                         *)

AliasTimes == {10, 20, 30}

\* maybeUpdateTopOriginsMap(d), d being the caller's object of origin o
AliasedCall(o) ==
    /\ MaybeUpdateTopOriginsMapCall(callerData[o])
    /\ UNCHANGED <<calls, callerData, pointerVars, trackVars>>

\* the caller assigns d.originVisitData.timeSpentAtOrigin = t and
\* d.isCurrentlyMonetized = m on its object of origin o: whoever holds the
\* object reads the new values
CallerChanges(o, t, m) ==
    /\ callerData[o] # OriginData(o, t, m)
    /\ callerData' = [callerData EXCEPT ![o] = OriginData(o, t, m)]
    /\ topOriginsMap' =
           [r \in Rankings |->
               IF IsObject(topOriginsMap[r]) /\ topOriginsMap[r].origin = o
               THEN OriginData(o, t, m)
               ELSE topOriginsMap[r]]
    /\ lastCall' = [op |-> "callerChanges", origin |-> o]
    /\ prev' = Fields
    /\ UNCHANGED <<totalTimeSpent, totalMonetizedTimeSpent, totalVisits,
                   totalMonetizedVisits, totalSentAssetsMap, calls, pointerVars,
                   trackVars>>

NextAlias ==
    \/ \E o \in Origins : AliasedCall(o)
    \/ \E o \in Origins, t \in AliasTimes, m \in BOOLEAN : CallerChanges(o, t, m)

SpecAlias == Init /\ [][NextAlias]_vars

---------------------------------------------------------------------------
(* Payment pointers. A JavaScript string is Str(s) with s the sequence of  *)
(* its characters, so that the string methods can be computed.             *)

\* if (v) for a string of characters or null: the empty string is falsy
NonEmpty(v) == v.kind = "string" /\ Len(v.value) > 0

\* String.prototype.trim for the blank character
trim(s) ==
    LET kept == {i \in 1..Len(s) : s[i] # " "}
    IN  IF kept = {} THEN <<>>
        ELSE SubSeq(s, CHOOSE i \in kept : \A j \in kept : i <= j,
                       CHOOSE i \in kept : \A j \in kept : i >= j)

\* s.charAt(i), positions counted from 0; "" beyond the end
charAt(s, i) == IF i + 1 <= Len(s) THEN s[i + 1] ELSE ""

\* s.substr(start)
substr(s, start) == SubSeq(s, start + 1, Len(s))

\* s.indexOf(c): the first position of c counted from 0, or -1
indexOf(s, c) ==
    LET found == {i \in 1..Len(s) : s[i] = c}
    IN  IF found = {} THEN -1
        ELSE (CHOOSE i \in found : \A j \in found : i <= j) - 1

\* a.concat(b) returns a new string and leaves a as it is
concat(a, b) == a \o b

startsWith(s, prefix) ==
    Len(s) >= Len(prefix) /\ SubSeq(s, 1, Len(prefix)) = prefix

httpsURL == <<"h", "t", "t", "p", "s", ":", "/", "/">>
wellKnownPath ==
    <<".", "w", "e", "l", "l", "-", "k", "n", "o", "w", "n", "/", "p", "a", "y">>

\* resolvePaymentPointer(paymentPointer): in both branches that call
\* resolvedPaymentPointer.concat(...) the returned string is not assigned, so
\* resolvedPaymentPointer is the same in the three branches
resolvePaymentPointer(paymentPointer) ==
    IF ~NonEmpty(paymentPointer) THEN Null
    ELSE LET trimmed == trim(paymentPointer.value)
         IN  IF "$" = charAt(trimmed, 0)
             THEN LET withoutDollar == substr(trimmed, 1)
                      pathabemptyIndex == indexOf(withoutDollar, "/")
                      resolvedPaymentPointer ==
                          IF -1 = pathabemptyIndex
                          THEN withoutDollar
                          ELSE IF Len(withoutDollar) - 1 = pathabemptyIndex
                               THEN withoutDollar
                               ELSE withoutDollar
                  IN  Str(concat(httpsURL, resolvedPaymentPointer))
             ELSE IF startsWith(trimmed, httpsURL) THEN Str(trimmed)
                  ELSE Null

\* isPaymentPointerValid(paymentPointer) is called: its locals are set
IsPaymentPointerValidCall(paymentPointer) ==
    /\ pc = "idle"
    /\ isPaymentPointerValid' = FALSE
    /\ redirectCounter' = 5
    /\ response' = Null
    /\ endpoint' = Null
    /\ paymentPointerCandidate' = paymentPointer
    /\ requests' = 0
    /\ pc' = "while"
    /\ UNCHANGED <<statsVars, callerData, trackVars>>

\* while (redirectCounter > 0) { endpoint = resolvePaymentPointer(...)
WhileResolve ==
    /\ pc = "while"
    /\ redirectCounter > 0
    /\ endpoint' = resolvePaymentPointer(paymentPointerCandidate)
    /\ pc' = "if_endpoint"
    /\ UNCHANGED <<statsVars, callerData, trackVars, paymentPointerCandidate, redirectCounter,
                   response, isPaymentPointerValid, requests>>

\* the loop condition fails: return isPaymentPointerValid
WhileExit ==
    /\ pc = "while"
    /\ ~(redirectCounter > 0)
    /\ pc' = "return"
    /\ UNCHANGED <<statsVars, callerData, trackVars, paymentPointerCandidate, redirectCounter,
                   endpoint, response, isPaymentPointerValid, requests>>

\* if (endpoint) fails: the body ends and the loop condition is tested again
EndpointFalsy ==
    /\ pc = "if_endpoint"
    /\ ~NonEmpty(endpoint)
    /\ pc' = "while"
    /\ UNCHANGED <<statsVars, callerData, trackVars, paymentPointerCandidate, redirectCounter,
                   endpoint, response, isPaymentPointerValid, requests>>

\* response = await httpGet(endpoint, ...): the server answers with status
HttpGet(status) ==
    /\ pc = "if_endpoint"
    /\ NonEmpty(endpoint)
    /\ requests < MaxRequests
    /\ response' = [kind |-> "object", status |-> status]
    /\ requests' = requests + 1
    /\ pc' = "if_status"
    /\ UNCHANGED <<statsVars, callerData, trackVars, paymentPointerCandidate, redirectCounter,
                   endpoint, isPaymentPointerValid>>

\* response.status === 200: isPaymentPointerValid = true; break
StatusOK ==
    /\ pc = "if_status"
    /\ response.status = 200
    /\ isPaymentPointerValid' = TRUE
    /\ pc' = "return"
    /\ UNCHANGED <<statsVars, callerData, trackVars, paymentPointerCandidate, redirectCounter,
                   endpoint, response, requests>>

IsRedirect(status) == (status >= 300) /\ (status < 400)

\* a redirect: paymentPointerCandidate = newlocation reads a variable that
\* the file does not declare, so a ReferenceError is thrown
StatusRedirectThrows ==
    /\ pc = "if_status"
    /\ response.status # 200
    /\ IsRedirect(response.status)
    /\ pc' = "throw"
    /\ UNCHANGED <<statsVars, callerData, trackVars, paymentPointerCandidate, redirectCounter,
                   endpoint, response, isPaymentPointerValid, requests>>

\* a redirect on a page where a global named newlocation exists and holds
\* the string global: paymentPointerCandidate = newlocation; redirectCounter--
StatusRedirect(global) ==
    /\ pc = "if_status"
    /\ response.status # 200
    /\ IsRedirect(response.status)
    /\ paymentPointerCandidate' = global
    /\ redirectCounter' = redirectCounter - 1
    /\ pc' = "while"
    /\ UNCHANGED <<statsVars, callerData, trackVars, endpoint, response, isPaymentPointerValid,
                   requests>>

\* neither 200 nor a redirect: no branch is taken, the body ends and the loop
\* condition is tested again
StatusOther ==
    /\ pc = "if_status"
    /\ response.status # 200
    /\ ~IsRedirect(response.status)
    /\ pc' = "while"
    /\ UNCHANGED <<statsVars, callerData, trackVars, paymentPointerCandidate, redirectCounter,
                   endpoint, response, isPaymentPointerValid, requests>>

---------------------------------------------------------------------------
(* SpecPointer: one call of isPaymentPointerValid, for any of the pointers *)
(* and any sequence of responses                                           *)

Host == <<"a">>
CustomPath == <<"p">>

PointerInputs ==
    {Str(concat(<<"$">>, Host)),
     Str(concat(<<"$">>, concat(Host, <<"/">>))),
     Str(concat(<<"$">>, concat(Host, concat(<<"/">>, CustomPath)))),
     Str(concat(httpsURL, Host)),
     Str(concat(<<" ", "$">>, Host)),
     Str(Host),
     Str(<<>>)}

Statuses == {200, 301, 404}

NextPointer ==
    \/ \E p \in PointerInputs : IsPaymentPointerValidCall(p)
    \/ WhileResolve
    \/ WhileExit
    \/ EndpointFalsy
    \/ \E status \in Statuses : HttpGet(status)
    \/ StatusOK
    \/ StatusRedirectThrows
    \/ \E global \in PointerInputs : StatusRedirect(global)
    \/ StatusOther

SpecPointer == Init /\ [][NextPointer]_vars

---------------------------------------------------------------------------
(* Tracking the time spent on the site. performance.now() gives            *)
(* milliseconds with a fraction: the clock counts units of 1/Resolution ms *)
(* and Math.ceil rounds such a time up to whole milliseconds.              *)

Resolution == 2

\* Math.ceil(t), t a non-negative time in clock units; the result in ms
ceil(t) == (t + Resolution - 1) \div Resolution

getCurrentTime == clock

\* trackTimeOnSite() is called on a page that is hidden (a tab opened in the
\* background) or visible: the locals are set, the visibilitychange listener
\* and the interval are installed
TrackTimeOnSiteCall(isHidden) ==
    /\ ~tracking
    /\ tracking' = TRUE
    /\ hidden' = isHidden
    /\ previousStoreTime' = getCurrentTime
    /\ docHiddenTime' = -1
    /\ docVisibleTime' = -1
    /\ visibleSinceStore' = 0
    /\ lastCall' = [op |-> "trackTimeOnSite"]
    /\ UNCHANGED <<totalTimeSpent, totalMonetizedTimeSpent, totalVisits,
                   totalMonetizedVisits, topOriginsMap, totalSentAssetsMap, prev,
                   calls, callerData, pointerVars, clock, awaiting>>

\* time passes
TimePasses ==
    /\ tracking
    /\ clock < MaxTime
    /\ clock' = clock + 1
    /\ visibleSinceStore' = IF hidden THEN visibleSinceStore ELSE visibleSinceStore + 1
    /\ lastCall' = [op |-> "timePasses"]
    /\ UNCHANGED <<totalTimeSpent, totalMonetizedTimeSpent, totalVisits,
                   totalMonetizedVisits, topOriginsMap, totalSentAssetsMap, prev,
                   calls, callerData, pointerVars, tracking, hidden,
                   previousStoreTime, docHiddenTime, docVisibleTime, awaiting>>

\* the page becomes hidden or visible and the visibilitychange listener runs;
\* what it awaits afterwards sets the extension icon only
VisibilityChange ==
    /\ tracking
    /\ hidden' = ~hidden
    /\ docHiddenTime' = IF hidden' THEN getCurrentTime ELSE docHiddenTime
    /\ docVisibleTime' = IF hidden' THEN docVisibleTime ELSE getCurrentTime
    /\ lastCall' = [op |-> "visibilitychange"]
    /\ UNCHANGED <<totalTimeSpent, totalMonetizedTimeSpent, totalVisits,
                   totalMonetizedVisits, topOriginsMap, totalSentAssetsMap, prev,
                   calls, callerData, pointerVars, tracking, clock,
                   previousStoreTime, awaiting, visibleSinceStore>>

\* the recentTimeSpent the interval callback passes to storeRecentTimeSpent
recentTimeSpent(now) ==
    IF docHiddenTime > previousStoreTime
    THEN LET timeFromPreviousStoreToDocHidden == docHiddenTime - previousStoreTime
             timeSinceDocVisible == now - docVisibleTime
         IN  timeFromPreviousStoreToDocHidden + timeSinceDocVisible
    ELSE now - previousStoreTime

\* the interval callback runs while the document is visible, up to the await:
\* storeRecentTimeSpent rounds the time and passes it to storage (calls lists
\* the values passed); previousStoreTime is assigned when the await ends
IntervalTickVisible ==
    /\ tracking
    /\ ~hidden
    /\ Len(calls) < MaxStores
    /\ getCurrentTime \notin awaiting
    /\ LET now == getCurrentTime
           recentTimeSpentRounded == ceil(recentTimeSpent(now))
       IN  /\ calls' = Append(calls, recentTimeSpentRounded)
           /\ awaiting' = awaiting \cup {now}
           /\ lastCall' = [op |-> "intervalTick", visible |-> TRUE,
                           overlaps |-> awaiting # {},
                           visibleTime |-> visibleSinceStore,
                           recentTimeSpentRounded |-> recentTimeSpentRounded]
    /\ visibleSinceStore' = 0
    /\ UNCHANGED <<totalTimeSpent, totalMonetizedTimeSpent, totalVisits,
                   totalMonetizedVisits, topOriginsMap, totalSentAssetsMap, prev,
                   callerData, pointerVars, tracking, clock, hidden,
                   previousStoreTime, docHiddenTime, docVisibleTime>>

\* the interval callback runs while the document is hidden: nothing is stored
IntervalTickHidden ==
    /\ tracking
    /\ hidden
    /\ lastCall' = [op |-> "intervalTick", visible |-> FALSE]
    /\ UNCHANGED <<totalTimeSpent, totalMonetizedTimeSpent, totalVisits,
                   totalMonetizedVisits, topOriginsMap, totalSentAssetsMap, prev,
                   calls, callerData, pointerVars, trackVars>>

\* the await of the callback that read the clock at now ends:
\* previousStoreTime = now
StoreCompletes(now) ==
    /\ now \in awaiting
    /\ previousStoreTime' = now
    /\ awaiting' = awaiting \ {now}
    /\ lastCall' = [op |-> "storeCompletes", now |-> now]
    /\ UNCHANGED <<totalTimeSpent, totalMonetizedTimeSpent, totalVisits,
                   totalMonetizedVisits, topOriginsMap, totalSentAssetsMap, prev,
                   calls, callerData, pointerVars, tracking, clock, hidden,
                   docHiddenTime, docVisibleTime, visibleSinceStore>>

---------------------------------------------------------------------------
(* SpecTrack: trackTimeOnSite on a page that is hidden and shown at any    *)
(* time, with interval callbacks at any time                               *)

NextTrack ==
    \/ \E isHidden \in BOOLEAN : TrackTimeOnSiteCall(isHidden)
    \/ TimePasses
    \/ VisibilityChange
    \/ IntervalTickVisible
    \/ IntervalTickHidden
    \/ \E now \in awaiting : StoreCompletes(now)

SpecTrack == Init /\ [][NextTrack]_vars

---------------------------------------------------------------------------
(* Properties of the top origins map *)

Occupied(map) == {r \in Rankings : IsObject(map[r])}

TimeAt(map, r) == map[r].originVisitData.timeSpentAtOrigin

\* the origin and time spent held at a rank, or <<>> for an unoccupied rank
Holds(map, r) == IF IsObject(map[r]) THEN <<map[r].origin, TimeAt(map, r)>> ELSE <<>>

SameArrangement(m1, m2) == \A r \in Rankings : Holds(m1, r) = Holds(m2, r)

IsBoardCall == lastCall.op = "maybeUpdateTopOriginsMap"

Before == prev.topOriginsMap

ContenderTime == lastCall.contender.originVisitData.timeSpentAtOrigin

\* C1 (as claimed): no origin identifier occupies more than one rank of
\* topOriginsMap, whatever maybeUpdateTopOriginsMap calls were made.
C1_NoOriginTwice ==
    \A i, j \in Occupied(topOriginsMap) :
        i # j => topOriginsMap[i].origin # topOriginsMap[j].origin

\* C2: the time-spent values of the occupied ranks are non-increasing by rank.
C2_NonIncreasingByRank ==
    \A i, j \in Occupied(topOriginsMap) :
        i < j => TimeAt(topOriginsMap, i) >= TimeAt(topOriginsMap, j)

\* a full board with three different times on which the last call displaced
\* an entry at a rank below the first
C2_Witness ==
    /\ IsBoardCall
    /\ Occupied(Before) = Rankings
    /\ Before[1] = topOriginsMap[1]
    /\ Before[2] = topOriginsMap[2]
    /\ Before[3] # topOriginsMap[3]
    /\ Cardinality({TimeAt(topOriginsMap, r) : r \in Rankings}) = 3

\* C3 (as claimed): a call whose contender is already on the board with the
\* same time spent leaves every rank with the origin and time it had.
C3_ReRegisterKeepsArrangement ==
    (/\ IsBoardCall
     /\ \E r \in Occupied(Before) :
           /\ Before[r].origin = lastCall.contender.origin
           /\ TimeAt(Before, r) = ContenderTime)
    => SameArrangement(Before, topOriginsMap)

\* the case C4 is about: a monetized contender with a positive time spent
\* greater than that of every occupant
BeatsEveryOccupant ==
    /\ IsBoardCall
    /\ lastCall.contender.isCurrentlyMonetized
    /\ ContenderTime > 0
    /\ \A r \in Occupied(Before) : ContenderTime > TimeAt(Before, r)

\* the contender is at rank 1 and every previous occupant is one rank lower
ShiftedDownFromFirst ==
    /\ topOriginsMap[1] = lastCall.contender
    /\ \A r \in ORIGIN_RANKING_FIRST..(ORIGIN_RANKING_LAST - 1) :
          Holds(topOriginsMap, r + 1) = Holds(Before, r)

\* C4 (as claimed): a contender that beats every occupant is placed at rank 1
\* and every previous occupant of rank r moves to rank r+1.
C4_Original == BeatsEveryOccupant => ShiftedDownFromFirst

\* C4 (amended): a contender that beats every occupant is placed at rank 1;
\* the previous occupants each move one rank down (the one at rank 5 is
\* dropped) unless rank 1 held the contender's own origin, in which case the
\* contender overwrites rank 1 and every other rank is unchanged.
C4_PlacedFirst ==
    BeatsEveryOccupant =>
        IF IsObject(Before[1]) /\ Before[1].origin = lastCall.contender.origin
        THEN /\ topOriginsMap[1] = lastCall.contender
             /\ \A r \in Rankings \ {1} : topOriginsMap[r] = Before[r]
        ELSE ShiftedDownFromFirst

\* the board was full, rank 1 held another origin, and the contender beat all
C4_Witness ==
    /\ BeatsEveryOccupant
    /\ Occupied(Before) = Rankings
    /\ Before[1].origin # lastCall.contender.origin
    /\ topOriginsMap[1] = lastCall.contender
    /\ topOriginsMap[5] = Before[4]

\* C6: every incumbent whose time spent is greater than or equal to the
\* contender's holds the same rank after the call.
C6_TieKeepsIncumbent ==
    IsBoardCall =>
        \A r \in Occupied(Before) :
            TimeAt(Before, r) >= ContenderTime => topOriginsMap[r] = Before[r]

\* the contender tied with an incumbent and was placed on the board below it
C6_Witness ==
    /\ IsBoardCall
    /\ \E r \in Occupied(Before) :
          /\ TimeAt(Before, r) = ContenderTime
          /\ Before[r].origin # lastCall.contender.origin
          /\ \E q \in Rankings : q > r /\ IsObject(Before[q])
                                  /\ topOriginsMap[q] = lastCall.contender

\* C7: the map is unchanged when the contender is not monetized or its time
\* spent is <= 0.
C7_NoOpUnlessMonetizedAndPositive ==
    (/\ IsBoardCall
     /\ \/ ~lastCall.contender.isCurrentlyMonetized
        \/ ContenderTime <= 0)
    => topOriginsMap = Before

\* a contender that is not monetized with more time than every occupant of
\* a board that has room
C7_Witness ==
    /\ IsBoardCall
    /\ ~lastCall.contender.isCurrentlyMonetized
    /\ Occupied(Before) # {}
    /\ Occupied(Before) # Rankings
    /\ \A r \in Occupied(Before) : ContenderTime > TimeAt(Before, r)

\* the number of earlier or larger candidates that rank before calls[i]
Ahead(i) ==
    Cardinality({j \in 1..Len(calls) :
        \/ calls[j].originVisitData.timeSpentAtOrigin
               > calls[i].originVisitData.timeSpentAtOrigin
        \/ /\ calls[j].originVisitData.timeSpentAtOrigin
               = calls[i].originVisitData.timeSpentAtOrigin
           /\ j < i})

CallTimes == [i \in 1..Len(calls) |-> calls[i].originVisitData.timeSpentAtOrigin]

BoardTimes == [r \in Rankings |-> TimeAt(topOriginsMap, r)]

\* C5: with monetized candidates of distinct origins the board holds the (up
\* to) five largest times in descending order, equal times in arrival order;
\* [10,20,30,40,50] gives [50,40,30,20,10] and then 25 gives [50,40,30,25,20]
\* without the origin that had 10.
C5_FiveLargestInOrder ==
    /\ \A i \in 1..Len(calls) :
          Ahead(i) < ORIGIN_RANKING_LAST => topOriginsMap[Ahead(i) + 1] = calls[i]
    /\ \A r \in Rankings : r > Len(calls) => ~IsObject(topOriginsMap[r])
    /\ CallTimes = <<10, 20, 30, 40, 50>> => BoardTimes = <<50, 40, 30, 20, 10>>
    /\ CallTimes = <<10, 20, 30, 40, 50, 25>> =>
          /\ BoardTimes = <<50, 40, 30, 25, 20>>
          /\ \A r \in Rankings : topOriginsMap[r].origin # 1

C5_Witness ==
    /\ CallTimes = <<10, 20, 30, 40, 50, 25>>
    /\ BoardTimes = <<50, 40, 30, 25, 20>>

---------------------------------------------------------------------------
(* Properties of storing and loading, and of the total sent assets map *)

\* the normalized total held for an asset code, or <<>> when there is no entry
LedgerTotal(map, c) == IF IsObject(map[c]) THEN <<map[c].amount, map[c].assetScale>> ELSE <<>>

\* C8: the instance that AkitaOriginStats.fromObject builds from the stored
\* instance has the same four totals, the same origin and time spent at each
\* rank, and the same total for each asset code.
C8_RoundTrip ==
    lastCall.op = "fromObject" =>
        /\ totalTimeSpent = prev.totalTimeSpent
        /\ totalMonetizedTimeSpent = prev.totalMonetizedTimeSpent
        /\ totalVisits = prev.totalVisits
        /\ totalMonetizedVisits = prev.totalMonetizedVisits
        /\ SameArrangement(prev.topOriginsMap, topOriginsMap)
        /\ \A c \in AssetKeys :
              LedgerTotal(totalSentAssetsMap, c) = LedgerTotal(prev.totalSentAssetsMap, c)

\* an instance with every total positive, two ranks occupied, ranks left
\* holding undefined by a reordering, and a USD total was stored and loaded
C8_Witness ==
    /\ lastCall.op = "fromObject"
    /\ totalMonetizedTimeSpent > 0
    /\ totalTimeSpent > totalMonetizedTimeSpent
    /\ totalMonetizedVisits > 0
    /\ totalVisits > totalMonetizedVisits
    /\ Cardinality(Occupied(topOriginsMap)) >= 2
    /\ \E r \in Rankings : prev.topOriginsMap[r] = Undefined
    /\ LedgerTotal(totalSentAssetsMap, "USD") = <<765, 3>>

\* missing, or not numeric
NotNumeric(v) == v.kind # "number"

\* missing or empty
NoCode(v) == v.kind # "string" \/ v.value = ""

\* C9 (as claimed): totalSentAssetsMap is unchanged (no entry created, no
\* total changed) when amount or assetScale is missing or non-numeric, or
\* assetCode is empty or missing.
C9_NoOpOnMalformed ==
    (/\ lastCall.op = "updateAssetsMapWithAsset"
     /\ \/ NotNumeric(lastCall.paymentData.amount)
        \/ NotNumeric(lastCall.paymentData.assetScale)
        \/ NoCode(lastCall.paymentData.assetCode))
    => totalSentAssetsMap = prev.totalSentAssetsMap

PointerOnly(p) == p.amount = Absent /\ p.assetScale = Absent /\ p.assetCode = Absent

\* C10: a call that carries only a paymentPointer leaves totalSentAssetsMap and
\* every other field unchanged.
C10_PointerOnlyChangesNothing ==
    (lastCall.op = "updateAssetsMapWithAsset" /\ PointerOnly(lastCall.paymentData))
    => Fields = prev

\* a pointer-only call on an instance with visits, time, a ranked origin and
\* a USD total
C10_Witness ==
    /\ lastCall.op = "updateAssetsMapWithAsset"
    /\ PointerOnly(lastCall.paymentData)
    /\ totalVisits > 0
    /\ totalTimeSpent > 0
    /\ Occupied(topOriginsMap) # {}
    /\ IsObject(totalSentAssetsMap["USD"])

---------------------------------------------------------------------------
(* Properties of the totals *)

\* the number of calls recorded whose flag was true
MonetizedCalls == Cardinality({i \in 1..Len(calls) : calls[i]})

\* C11: totalVisits is the number of incrementVisits calls and
\* totalMonetizedVisits the number of those whose flag was true (3 true and 2
\* false give 5 and 3); a call leaves topOriginsMap, the time totals and
\* totalSentAssetsMap unchanged.
C11_VisitsCounted ==
    /\ totalVisits = Len(calls)
    /\ totalMonetizedVisits = MonetizedCalls
    /\ (Len(calls) = 5 /\ MonetizedCalls = 3) =>
          (totalVisits = 5 /\ totalMonetizedVisits = 3)
    /\ lastCall.op = "incrementVisits" =>
          /\ topOriginsMap = prev.topOriginsMap
          /\ totalTimeSpent = prev.totalTimeSpent
          /\ totalMonetizedTimeSpent = prev.totalMonetizedTimeSpent
          /\ totalSentAssetsMap = prev.totalSentAssetsMap

\* three calls with true and two with false, the last on an instance with
\* time spent, a ranked origin and a USD total
C11_Witness ==
    /\ lastCall.op = "incrementVisits"
    /\ Len(calls) = 5
    /\ MonetizedCalls = 3
    /\ totalVisits = 5
    /\ totalMonetizedVisits = 3
    /\ totalTimeSpent > 0
    /\ IsObject(topOriginsMap[1])
    /\ IsObject(totalSentAssetsMap["USD"])

\* C12: updateTimeSpent adds recentTimeSpent to totalTimeSpent, adds it to
\* totalMonetizedTimeSpent if and only if originData.isCurrentlyMonetized,
\* gives originData to maybeUpdateTopOriginsMap in every case, and leaves the
\* visit counters and totalSentAssetsMap unchanged.
C12_UpdateTimeSpent ==
    lastCall.op = "updateTimeSpent" =>
        /\ totalTimeSpent = prev.totalTimeSpent + lastCall.recentTimeSpent
        /\ totalMonetizedTimeSpent =
              IF lastCall.originData.isCurrentlyMonetized
              THEN prev.totalMonetizedTimeSpent + lastCall.recentTimeSpent
              ELSE prev.totalMonetizedTimeSpent
        /\ topOriginsMap =
              maybeUpdateTopOriginsMap(prev.topOriginsMap, lastCall.originData)
        /\ totalVisits = prev.totalVisits
        /\ totalMonetizedVisits = prev.totalMonetizedVisits
        /\ totalSentAssetsMap = prev.totalSentAssetsMap

\* an origin that is not monetized, with more time than the ranked ones, was
\* given to updateTimeSpent with a positive recentTimeSpent: only
\* totalTimeSpent grew
C12_Witness ==
    /\ lastCall.op = "updateTimeSpent"
    /\ ~lastCall.originData.isCurrentlyMonetized
    /\ lastCall.recentTimeSpent > 0
    /\ prev.totalMonetizedTimeSpent > 0
    /\ totalVisits > 0
    /\ IsObject(totalSentAssetsMap["USD"])
    /\ IsObject(topOriginsMap[1])
    /\ ~IsObject(topOriginsMap[5])
    /\ \A r \in Occupied(topOriginsMap) :
          lastCall.originData.originVisitData.timeSpentAtOrigin > TimeAt(topOriginsMap, r)

---------------------------------------------------------------------------
(* Properties of the totals of the assets *)

\* the scale every total and amount of SpecSum is compared at: the largest
CommonScale == CHOOSE k \in SumScales : \A j \in SumScales : j <= k

\* the total held for an asset code, as an integer at CommonScale (0 without
\* an entry)
TotalAtCommonScale(map, c) ==
    IF IsObject(map[c])
    THEN map[c].amount * Pow10(CommonScale - map[c].assetScale)
    ELSE 0

\* the call passes the test of line 256
PassesGuard(p) ==
    /\ DefaultNull(p.amount).kind \in {"number", "null"}
    /\ DefaultNull(p.assetScale).kind \in {"number", "null"}
    /\ p.assetCode.kind = "string"
    /\ p.assetCode.value # ""

\* C14 (as claimed): after a call that passes the input guard the total of
\* each currency is greater than or equal to its total before the call.
C14_TotalNeverDecreases ==
    (lastCall.op = "updateAssetsMapWithAsset" /\ PassesGuard(lastCall.paymentData))
    => \A c \in AssetCodes :
          TotalAtCommonScale(totalSentAssetsMap, c)
              >= TotalAtCommonScale(prev.totalSentAssetsMap, c)

\* C14 (amended): after a call that passes the input guard and whose amount is
\* not negative, the total of each currency is greater than or equal to its
\* total before the call.
C14_TotalNeverDecreasesNonNegative ==
    (/\ lastCall.op = "updateAssetsMapWithAsset"
     /\ PassesGuard(lastCall.paymentData)
     /\ ToNumber(lastCall.paymentData.amount) >= 0)
    => \A c \in AssetCodes :
          TotalAtCommonScale(totalSentAssetsMap, c)
              >= TotalAtCommonScale(prev.totalSentAssetsMap, c)

\* a smaller amount at another scale was added to a positive total
C14_Witness ==
    /\ lastCall.op = "updateAssetsMapWithAsset"
    /\ PassesGuard(lastCall.paymentData)
    /\ lastCall.paymentData.amount = Num(235)
    /\ IsObject(prev.totalSentAssetsMap["USD"])
    /\ prev.totalSentAssetsMap["USD"].amount > 235
    /\ prev.totalSentAssetsMap["USD"].assetScale # lastCall.paymentData.assetScale.value
    /\ TotalAtCommonScale(totalSentAssetsMap, "USD")
           > TotalAtCommonScale(prev.totalSentAssetsMap, "USD")

\* the sum of the amounts recorded for an asset code in calls[1..n], each
\* brought to CommonScale
RECURSIVE SumAtCommonScale(_, _)
SumAtCommonScale(c, n) ==
    IF n = 0 THEN 0
    ELSE SumAtCommonScale(c, n - 1)
         + (IF calls[n].assetCode.value = c
            THEN calls[n].amount.value * Pow10(CommonScale - calls[n].assetScale.value)
            ELSE 0)

CallAmounts == [i \in 1..Len(calls) |->
                  <<calls[i].assetCode.value, calls[i].amount.value,
                    calls[i].assetScale.value>>]

---------------------------------------------------------------------------
(* Further properties of the top origins map *)

Min(a, b) == IF a <= b THEN a ELSE b

PlacementRank(map, t) ==
    LET open == {r \in Rankings : ~IsObject(map[r]) \/ TimeAt(map, r) < t}
    IN  IF open = {} THEN ORIGIN_RANKING_LAST + 1
        ELSE CHOOSE r \in open : \A q \in open : r <= q

\* the case C17 is about: the placement rank holds another origin
DisplacesAt(R) ==
    /\ IsBoardCall
    /\ lastCall.contender.isCurrentlyMonetized
    /\ ContenderTime > 0
    /\ R = PlacementRank(Before, ContenderTime)
    /\ R <= ORIGIN_RANKING_LAST
    /\ IsObject(Before[R])
    /\ Before[R].origin # lastCall.contender.origin

\* C17: when the placement rank R holds a different origin, after the call
\* rank R holds the candidate, every entry of a rank r with R <= r < 5 is at
\* rank r+1 (so the entry of rank 5 is gone from it), and ranks 1..R-1 are
\* unchanged.
C17_InsertAndCascade ==
    \A R \in Rankings :
        DisplacesAt(R) =>
            /\ topOriginsMap[R] = lastCall.contender
            /\ \A r \in R..(ORIGIN_RANKING_LAST - 1) :
                  Holds(topOriginsMap, r + 1) = Holds(Before, r)
            /\ \A r \in ORIGIN_RANKING_FIRST..(R - 1) : topOriginsMap[r] = Before[r]

\* a candidate displaced the occupant of rank 3 of a full board whose rank 5
\* held an entry different from that of rank 4
C17_Witness ==
    /\ DisplacesAt(3)
    /\ Occupied(Before) = Rankings
    /\ Before[5] # Before[4]
    /\ topOriginsMap[3] = lastCall.contender
    /\ topOriginsMap[4] = Before[3]
    /\ topOriginsMap[5] = Before[4]

\* C18: when the board is full and the candidate's time spent is not greater
\* than that of any of the five incumbents, the board is unchanged.
C18_DiscardedWhenNotBetter ==
    (/\ IsBoardCall
     /\ Occupied(Before) = Rankings
     /\ \A r \in Rankings : ~(ContenderTime > TimeAt(Before, r)))
    => topOriginsMap = Before

\* a monetized candidate tied with the occupant of rank 5 of a full board,
\* which held another origin, and was discarded
C18_Witness ==
    /\ IsBoardCall
    /\ lastCall.contender.isCurrentlyMonetized
    /\ Occupied(Before) = Rankings
    /\ ContenderTime = TimeAt(Before, 5)
    /\ ContenderTime < TimeAt(Before, 1)
    /\ \A r \in Rankings : Before[r].origin # lastCall.contender.origin
    /\ topOriginsMap = Before

\* C13: an entry of the board is a snapshot: a change the caller makes to an
\* origin's record after it was placed does not change the board.
C13_StoredEntryIsSnapshot ==
    lastCall.op = "callerChanges" => topOriginsMap = prev.topOriginsMap

---------------------------------------------------------------------------
(* Properties of the payment pointer validation *)

\* C19: isPaymentPointerValid terminates for every pointer and every sequence
\* of responses and performs at most five requests; in particular it returns
\* when the pointer has no endpoint and when a response is neither 200 nor a
\* redirect.
C19_AtMostFiveRequests ==
    requests <= 5

\* the endpoint the description of resolvePaymentPointer gives for a pointer
ExpectedEndpoint(paymentPointer) ==
    IF paymentPointer.kind # "string" THEN Null
    ELSE IF Len(paymentPointer.value) > 0 /\ Head(paymentPointer.value) = "$"
    THEN LET hostAndPath == Tail(paymentPointer.value)
             slashes == {i \in 1..Len(hostAndPath) : hostAndPath[i] = "/"}
         IN  IF slashes = {}
             THEN Str(httpsURL \o hostAndPath \o <<"/">> \o wellKnownPath)
             ELSE IF slashes = {Len(hostAndPath)}
                  THEN Str(httpsURL \o hostAndPath \o wellKnownPath)
                  ELSE Str(httpsURL \o hostAndPath)
    ELSE IF startsWith(paymentPointer.value, httpsURL) THEN paymentPointer
         ELSE Null

\* C20: resolvePaymentPointer maps "$" host, with no path or only a trailing
\* slash, to "https://" host "/.well-known/pay", keeps a custom path, returns
\* an input starting with "https://" as it is, and gives null otherwise.
C20_ResolvesAsSpecified ==
    pc = "if_endpoint" => endpoint = ExpectedEndpoint(paymentPointerCandidate)

---------------------------------------------------------------------------
(* Invariants of the totals and of the ranks *)

\* C23: after any sequence of updateTimeSpent (recentTimeSpent >= 0) and
\* incrementVisits calls the four totals are non-negative, never decrease,
\* and the monetized totals do not exceed the totals.
C23_TotalsOrdered ==
    /\ totalTimeSpent >= 0
    /\ totalMonetizedTimeSpent >= 0
    /\ totalVisits >= 0
    /\ totalMonetizedVisits >= 0
    /\ totalTimeSpent >= prev.totalTimeSpent
    /\ totalMonetizedTimeSpent >= prev.totalMonetizedTimeSpent
    /\ totalVisits >= prev.totalVisits
    /\ totalMonetizedVisits >= prev.totalMonetizedVisits
    /\ totalMonetizedTimeSpent <= totalTimeSpent
    /\ totalMonetizedVisits <= totalVisits

\* a monetized visit was counted after time was spent at monetized and at
\* other origins: every total is positive and each monetized total is below
\* its total
C23_Witness ==
    /\ lastCall.op = "incrementVisits"
    /\ lastCall.flag
    /\ totalMonetizedVisits = prev.totalMonetizedVisits + 1
    /\ 0 < totalMonetizedVisits
    /\ totalMonetizedVisits < totalVisits
    /\ 0 < totalMonetizedTimeSpent
    /\ totalMonetizedTimeSpent < totalTimeSpent

\* C24: after any sequence of maybeUpdateTopOriginsMap calls the occupied
\* ranks are 1..k for some k in 0..5: no occupied rank follows an unoccupied
\* one, and no key outside 1..5 holds an entry.
C24_OccupiedRanksArePrefix ==
    /\ DOMAIN topOriginsMap = Rankings
    /\ \E k \in 0..ORIGIN_RANKING_LAST : Occupied(topOriginsMap) = 1..k

\* a candidate displaced the occupant of rank 1 of a board of two entries,
\* which became a board of three
C24_Witness ==
    /\ IsBoardCall
    /\ Occupied(Before) = 1..2
    /\ Occupied(topOriginsMap) = 1..3
    /\ topOriginsMap[1] = lastCall.contender
    /\ topOriginsMap[2] = Before[1]
    /\ topOriginsMap[3] = Before[2]

---------------------------------------------------------------------------
(* Properties of the time tracking *)

\* C21: an interval tick that fires while the document is visible stores
\* exactly (rounded up to whole milliseconds) the time the document was
\* visible since the previous store, whatever the hidden/visible transitions
\* in between; stated for the ticks that find no earlier tick awaiting.
C21_StoresVisibleTimeOnly ==
    (/\ lastCall.op = "intervalTick"
     /\ lastCall.visible
     /\ ~lastCall.overlaps)
    => lastCall.recentTimeSpentRounded = ceil(lastCall.visibleTime)

RECURSIVE SumOfStored(_)
SumOfStored(stored) ==
    IF stored = <<>> THEN 0 ELSE Head(stored) + SumOfStored(Tail(stored))

\* C22: the sum of the stored recentTimeSpent values never exceeds the time
\* elapsed since trackTimeOnSite started, each value counted with less than
\* one millisecond of rounding, also when ticks overlap.
C22_NoSpanStoredTwice ==
    tracking =>
        Resolution * SumOfStored(calls) <= clock + Len(calls) * (Resolution - 1)

====
